---- MODULE Spec2Model ----
(***************************************************************************)
(* A model of omrgen.py, the OMR sheet generator: the value normalizers,   *)
(* the column resolver, the bubble layout engine and the batch run over    *)
(* the worksheets and rows of an uploaded workbook.                        *)
(*                                                                         *)
(* Text is a sequence of characters, each character a one-element string.  *)
(* The character "sup2" stands for U+00B2 (superscript two): Python's      *)
(* str.isdigit() accepts it, int() and the regex class \d do not.          *)
(* Lengths are in units of 0.01 cm.                                        *)
(***************************************************************************)
EXTENDS Integers, Sequences, FiniteSets, TLC

VARIABLES
    pc,           \* the step the script is at
    v,            \* SpecRoll: the raw roll-number cell
    roll_no,      \* SpecRoll: outcome of format_roll_value(v)
    template,     \* SpecRoll: the track the layout engine is run for
    bubbles,      \* SpecRoll: outcome of fill_roll_bubbles_<track>
    labels,       \* SpecRoll: outcome of draw_roll_number_text
    class_val,    \* SpecClass: the raw class cell
    parsed_class, \* SpecClass: outcome of parse_class_value(class_val)
    df_columns,   \* SpecCols: the worksheet's ordered headers
    col_map,      \* SpecCols: canonical field -> header or None
    fname_in,     \* SpecFile: the text given to safe_filename
    fname_out,    \* SpecFile: the text safe_filename returned
    OMR_TEMPLATES, \* track -> whether its template image loaded
    sheet_names,  \* the worksheet names of the uploaded workbook
    read_ok,      \* per worksheet reached so far: did read_excel succeed
    df,           \* the worksheet being processed: its headers and col_map
    rows,         \* the rows of that worksheet iterated so far
    canvas,       \* the pages shown on that worksheet's canvas so far
    zipf,         \* the archive: entries written, in order
    messages,     \* what the UI was told: errors, warnings, notes
    offered,      \* whether the download button was shown
    composed      \* SpecRow: the outcome of the row loop body on one row

rollVars == <<v, roll_no, template, bubbles, labels>>
classVars == <<class_val, parsed_class>>
colsVars == <<df_columns, col_map>>
fileVars == <<fname_in, fname_out>>

runVars == <<OMR_TEMPLATES, sheet_names, read_ok, df, rows, canvas, zipf,
             messages, offered, composed>>

vars == <<pc, rollVars, classVars, colsVars, fileVars, runVars>>

-----------------------------------------------------------------------------
(* Bounds of the model *)

MaxRollLen == 4      \* longest enumerated roll-number text
MaxRollInt == 1000   \* largest numeric roll-number cell
MaxClassLen == 3     \* longest enumerated class text
MaxClassInt == 13    \* largest numeric class cell
MaxHeaders == 3      \* most headers of a worksheet
MaxSeedLen == 3      \* longest repeated unit of a file-name text
MidRepeat == 67      \* repetitions that bring a 3-character unit past 200
LongRepeat == 201    \* repetitions that bring a 1-character unit past 200
MaxSheets == 2       \* most worksheets of a workbook
MaxRows == 2         \* most rows of a worksheet

-----------------------------------------------------------------------------
(* Python values and outcomes *)

\* The outcome of a call: not made yet, a returned value, or an exception
\* that leaves the function.
Pending(dflt) == [tag |-> "pending", val |-> dflt, exc |-> "none"]
Ok(x) == [tag |-> "ok", val |-> x, exc |-> "none"]
Raise(exc, dflt) == [tag |-> "raise", val |-> dflt, exc |-> exc]

\* A spreadsheet cell read with dtype=object: NaN for an empty cell, an
\* integer, a text, or a date/time object.
Cell(k, n, s) == [k |-> k, n |-> n, s |-> s]
NaN == Cell("nan", 0, <<>>)
IntCell(n) == Cell("int", n, <<>>)
StrCell(s) == Cell("str", 0, s)
DateCell == Cell("date", 0, <<>>)

Min(a, b) == IF a < b THEN a ELSE b

RECURSIVE Strings(_, _)
\* every text over alphabet A of length at most n
Strings(A, n) ==
    IF n = 0 THEN {<<>>}
    ELSE LET S == Strings(A, n - 1)
         IN S \cup {<<c>> \o s : c \in A, s \in {t \in S : Len(t) = n - 1}}

-----------------------------------------------------------------------------
(* Python text primitives *)

DecDigits == {"0", "1", "2", "3", "4", "5", "6", "7", "8", "9"}
DigitSeq == <<"0", "1", "2", "3", "4", "5", "6", "7", "8", "9">>
Whitespace == {" ", "\t"}

\* str.isdigit() of one character: decimal digits and digit-like characters
PyIsDigit(c) == c \in DecDigits \cup {"sup2"}

\* str.isdigit(): non-empty and every character a digit
IsDigitStr(s) == Len(s) > 0 /\ \A i \in 1..Len(s) : PyIsDigit(s[i])

DigitVal(c) == (CHOOSE i \in 1..10 : DigitSeq[i] = c) - 1

RECURSIVE DecValue(_)
\* value of a text of decimal digits
DecValue(s) ==
    IF s = <<>> THEN 0
    ELSE 10 * DecValue(SubSeq(s, 1, Len(s) - 1)) + DigitVal(s[Len(s)])

\* int(s) of a text without sign or blanks: ValueError unless all decimal
PyInt(s) ==
    IF Len(s) > 0 /\ \A i \in 1..Len(s) : s[i] \in DecDigits
    THEN Ok(DecValue(s))
    ELSE Raise("ValueError", 0)

\* str.strip(): the text between its first and last non-blank characters
Strip(s) ==
    LET idx == [i \in 1..Len(s) |-> i]
        NonBlank(i) == s[i] \notin Whitespace
        solid == SelectSeq(idx, NonBlank)
    IN  IF solid = <<>> THEN <<>>
        ELSE SubSeq(s, solid[1], solid[Len(solid)])

RECURSIVE NatToStr(_)
NatToStr(n) ==
    IF n < 10 THEN <<DigitSeq[n + 1]>>
    ELSE NatToStr(n \div 10) \o <<DigitSeq[(n % 10) + 1]>>

\* str(n) of an integer
IntToStr(n) == IF n < 0 THEN <<"-">> \o NatToStr(0 - n) ELSE NatToStr(n)

Zeros(n) == [i \in 1..n |-> "0"]

\* str.zfill(w): pad on the left with zeros, after a leading sign
ZFill(s, w) ==
    IF Len(s) >= w THEN s
    ELSE IF s # <<>> /\ s[1] \in {"+", "-"}
         THEN <<s[1]>> \o Zeros(w - Len(s)) \o Tail(s)
         ELSE Zeros(w - Len(s)) \o s

\* the slice s[:n]
Take(s, n) == SubSeq(s, 1, Min(n, Len(s)))

\* str(v) of a cell
Str(c) ==
    CASE c.k = "nan" -> <<"n", "a", "n">>
      [] c.k = "int" -> IntToStr(c.n)
      [] c.k = "str" -> c.s
      [] OTHER -> <<"2", "0", "2", "6", "-", "0", "1", "-", "0", "1">>

\* pd.isna(v)
IsNa(c) == c.k = "nan"

-----------------------------------------------------------------------------
(* float(v) followed by int(): the class of the float and its integer part *)

Float(cls, trunc) == [tag |-> "ok", cls |-> cls, trunc |-> trunc]
FloatError(exc) == [tag |-> exc, cls |-> "none", trunc |-> 0]

AllDec(s) == \A i \in 1..Len(s) : s[i] \in DecDigits

\* unsigned decimal literal: digits, with at most one point and at least one
\* digit; the integer part is what int() keeps
ParseUnsigned(s) ==
    LET dots == {i \in 1..Len(s) : s[i] = "."}
    IN  IF s = <<>> THEN FloatError("ValueError")
        ELSE IF s \in {<<"i", "n", "f">>, <<"i", "n", "f", "i", "n", "i", "t", "y">>}
        THEN Float("inf", 0)
        ELSE IF s = <<"n", "a", "n">> THEN Float("nan", 0)
        ELSE IF dots = {}
        THEN IF AllDec(s) THEN Float("fin", DecValue(s)) ELSE FloatError("ValueError")
        ELSE IF Cardinality(dots) > 1 THEN FloatError("ValueError")
        ELSE LET d == CHOOSE i \in dots : TRUE
                 ip == SubSeq(s, 1, d - 1)
                 fp == SubSeq(s, d + 1, Len(s))
             IN  IF AllDec(ip) /\ AllDec(fp) /\ Len(ip) + Len(fp) > 0
                 THEN Float("fin", DecValue(ip))
                 ELSE FloatError("ValueError")

\* float(text): blanks stripped, optional sign
ParseFloat(s) ==
    LET t == Strip(s)
    IN  IF t # <<>> /\ t[1] \in {"+", "-"}
        THEN LET f == ParseUnsigned(Tail(t))
             IN  IF f.tag = "ok" /\ t[1] = "-"
                 THEN Float(f.cls, 0 - f.trunc) ELSE f
        ELSE ParseUnsigned(t)

\* float(v)
PyFloat(c) ==
    CASE c.k = "int" -> Float("fin", c.n)
      [] c.k = "str" -> ParseFloat(c.s)
      [] c.k = "nan" -> Float("nan", 0)
      [] OTHER -> FloatError("TypeError")

-----------------------------------------------------------------------------
(* format_roll_value *)

format_roll_value(c) ==
    IF IsNa(c) \/ Strip(Str(c)) = <<>> THEN Ok(<<"0", "0", "0">>)
    ELSE LET f == PyFloat(c)
         IN  CASE f.tag = "TypeError" -> Raise("TypeError", <<>>)
               [] f.tag = "ValueError" -> Ok(Take(ZFill(Str(c), 3), 3))
               [] f.cls = "nan" -> Ok(Take(ZFill(Str(c), 3), 3))
               [] f.cls = "inf" -> Raise("OverflowError", <<>>)
               [] OTHER -> Ok(ZFill(IntToStr(f.trunc), 3))

-----------------------------------------------------------------------------
(* Calibration tables, in 0.01 cm *)

MASTER_ROLL_X_CM == <<1010, 1150, 1290>>
MASTER_BUBBLE_Y_TOP_CM == <<2200, 2200, 2200>>
MASTER_BUBBLE_SPACING_CM == 62
MASTER_BUBBLE_RADIUS_CM == 24

SHIFT_X_CM == 600
SHIFT_Y_CM == 0 - 30
CHILD_ROLL_X_CM == <<990 + SHIFT_X_CM, 1130 + SHIFT_X_CM, 1260 + SHIFT_X_CM>>
CHILD_BUBBLE_Y_TOP_CM ==
    <<2150 + SHIFT_Y_CM, 2150 + SHIFT_Y_CM, 2150 + SHIFT_Y_CM>>
CHILD_BUBBLE_SPACING_CM == 61
CHILD_BUBBLE_RADIUS_CM == 23

Tracks == {"child", "master"}

-----------------------------------------------------------------------------
(* Bubble layout engine.  The outcome of a drawing function is the list of *)
(* marks it put on the canvas and the exception, if any, that ended it.    *)
(* x is the calibration abscissa; the canvas abscissa is x * cm / 2.2.     *)

Drawn(marks, exc) == [marks |-> marks, exc |-> exc]
NotDrawn == [marks |-> <<>>, exc |-> "pending"]

Circle(i, x, y, r) == [pos |-> i, x |-> x, y |-> y, r |-> r, ch |-> "o"]
Glyph(i, x, y, ch) == [pos |-> i, x |-> x, y |-> y, r |-> 0, ch |-> ch]

RECURSIVE MasterLoop(_, _, _)
\* the loop of fill_roll_bubbles_master from enumerate index i - 1 on
MasterLoop(s, i, acc) ==
    IF i > Len(s) THEN Drawn(acc, "none")
    ELSE IF ~PyIsDigit(s[i]) THEN MasterLoop(s, i + 1, acc)
    ELSE IF s[i] \notin DecDigits THEN Drawn(acc, "ValueError")
    ELSE IF i > Len(MASTER_ROLL_X_CM) THEN Drawn(acc, "IndexError")
    ELSE MasterLoop(s, i + 1, Append(acc,
            Circle(i - 1, MASTER_ROLL_X_CM[i],
                   MASTER_BUBBLE_Y_TOP_CM[i]
                     - DigitVal(s[i]) * MASTER_BUBBLE_SPACING_CM - 260 + 3,
                   MASTER_BUBBLE_RADIUS_CM)))

fill_roll_bubbles_master(r) == MasterLoop(ZFill(r, 3), 1, <<>>)

RECURSIVE ChildLoop(_, _, _)
\* the loop of fill_roll_bubbles_child from enumerate index i - 1 on
ChildLoop(s, i, acc) ==
    IF i > Len(s) THEN Drawn(acc, "none")
    ELSE IF ~PyIsDigit(s[i]) THEN ChildLoop(s, i + 1, acc)
    ELSE IF s[i] \notin DecDigits THEN Drawn(acc, "ValueError")
    ELSE IF i > Len(CHILD_ROLL_X_CM) THEN Drawn(acc, "IndexError")
    ELSE ChildLoop(s, i + 1, Append(acc,
            Circle(i - 1, CHILD_ROLL_X_CM[i],
                   CHILD_BUBBLE_Y_TOP_CM[i]
                     - DigitVal(s[i]) * CHILD_BUBBLE_SPACING_CM - 260 + 20,
                   CHILD_BUBBLE_RADIUS_CM)))

fill_roll_bubbles_child(r) == ChildLoop(ZFill(r, 3), 1, <<>>)

RECURSIVE LabelLoop(_, _, _, _, _)
\* the loop of draw_roll_number_text from enumerate index i - 1 on
LabelLoop(s, i, x_positions, text_y, acc) ==
    IF i > Len(s) THEN Drawn(acc, "none")
    ELSE IF i > Len(x_positions) THEN Drawn(acc, "IndexError")
    ELSE LabelLoop(s, i + 1, x_positions, text_y,
                   Append(acc, Glyph(i - 1, x_positions[i], text_y, s[i])))

\* draw_roll_number_text called without its template argument
draw_roll_number_text_default(r, t) ==
    LabelLoop(ZFill(r, 3), 1, MASTER_ROLL_X_CM,
              MASTER_BUBBLE_Y_TOP_CM[1] - 210, <<>>)

draw_roll_number_text(r, t) ==
    IF t = "master"
    THEN LabelLoop(ZFill(r, 3), 1, MASTER_ROLL_X_CM,
                   MASTER_BUBBLE_Y_TOP_CM[1] - 210, <<>>)
    ELSE LabelLoop(ZFill(r, 3), 1, CHILD_ROLL_X_CM,
                   CHILD_BUBBLE_Y_TOP_CM[1] - 200, <<>>)

-----------------------------------------------------------------------------
(* The roll-number cells the roll specification draws from *)

RollAlphabet == {"0", "7", "-", ".", " ", "a", "sup2"}

RollCells ==
    {NaN, DateCell}
    \cup {IntCell(n) : n \in (0 - 99)..MaxRollInt}
    \cup {StrCell(s) : s \in Strings(RollAlphabet, MaxRollLen)}
    \cup {StrCell(<<"a", "b", "c">>), StrCell(<<"i", "n", "f">>),
          StrCell(<<"n", "a", "n">>), StrCell(<<"1", "2", "3", "4", "5">>),
          StrCell(<<"A", "-", "1", "7">>)}

-----------------------------------------------------------------------------
(* parse_class_value *)

UpperSeq ==
    <<"A", "B", "C", "D", "E", "F", "G", "H", "I", "J", "K", "L", "M",
      "N", "O", "P", "Q", "R", "S", "T", "U", "V", "W", "X", "Y", "Z">>
LowerSeq ==
    <<"a", "b", "c", "d", "e", "f", "g", "h", "i", "j", "k", "l", "m",
      "n", "o", "p", "q", "r", "s", "t", "u", "v", "w", "x", "y", "z">>

LowerChar(c) ==
    IF \E i \in 1..26 : UpperSeq[i] = c
    THEN LowerSeq[CHOOSE i \in 1..26 : UpperSeq[i] = c]
    ELSE c

\* str.lower()
Lower(s) == [i \in 1..Len(s) |-> LowerChar(s[i])]

\* the keys of roman_map and of words_map; the key at index n maps to n
roman_map ==
    <<<<"i">>,
      <<"i", "i">>,
      <<"i", "i", "i">>,
      <<"i", "v">>,
      <<"v">>,
      <<"v", "i">>,
      <<"v", "i", "i">>,
      <<"v", "i", "i", "i">>,
      <<"i", "x">>,
      <<"x">>,
      <<"x", "i">>,
      <<"x", "i", "i">>>>

words_map ==
    <<<<"f", "i", "r", "s", "t">>,
      <<"s", "e", "c", "o", "n", "d">>,
      <<"t", "h", "i", "r", "d">>,
      <<"f", "o", "u", "r", "t", "h">>,
      <<"f", "i", "f", "t", "h">>,
      <<"s", "i", "x", "t", "h">>,
      <<"s", "e", "v", "e", "n", "t", "h">>,
      <<"e", "i", "g", "h", "t", "h">>,
      <<"n", "i", "n", "t", "h">>,
      <<"t", "e", "n", "t", "h">>,
      <<"e", "l", "e", "v", "e", "n", "t", "h">>,
      <<"t", "w", "e", "l", "f", "t", "h">>>>

InMap(m, s) == \E n \in 1..Len(m) : m[n] = s
Lookup(m, s) == CHOOSE n \in 1..Len(m) : m[n] = s

RECURSIVE DigitRunEnd(_, _)
\* the last index of the run of decimal digits that starts at index i
DigitRunEnd(s, i) ==
    IF i < Len(s) /\ s[i + 1] \in DecDigits THEN DigitRunEnd(s, i + 1) ELSE i

RECURSIVE SearchDigits(_, _)
\* re.search(r'(\d+)', s) scanning from index i: the matched text, or <<>>
\* when nothing matches
SearchDigits(s, i) ==
    IF i > Len(s) THEN <<>>
    ELSE IF s[i] \in DecDigits THEN SubSeq(s, i, DigitRunEnd(s, i))
    ELSE SearchDigits(s, i + 1)

\* the parsed class level: Ok(n), None, or the exception that int() raises
None == [tag |-> "none", val |-> 0, exc |-> "none"]

parse_class_value(c) ==
    IF IsNa(c) THEN None
    ELSE LET s == Lower(Strip(Str(c)))
             m == SearchDigits(s, 1)
         IN  IF IsDigitStr(s) THEN PyInt(s)
             ELSE IF m # <<>> THEN PyInt(m)
             ELSE IF InMap(roman_map, s) THEN Ok(Lookup(roman_map, s))
             ELSE IF InMap(words_map, s) THEN Ok(Lookup(words_map, s))
             ELSE None

-----------------------------------------------------------------------------
(* normalize_col_name and find_column *)

AZ09 == {LowerSeq[i] : i \in 1..26} \cup DecDigits

IsAZ09(c) == c \in AZ09

\* re.sub(r'[^a-z0-9]', '', str(s).lower().strip()) if s else ""
normalize_col_name(s) ==
    IF s = <<>> THEN <<>> ELSE SelectSeq(Strip(Lower(s)), IsAZ09)

\* the test `a in norm` on texts
Contains(norm, a) ==
    \E i \in 1..(Len(norm) - Len(a) + 1) : SubSeq(norm, i, i + Len(a) - 1) = a

\* a column lookup: the header found, or no header
Found(h) == [some |-> TRUE, col |-> h]
NoColumn == [some |-> FALSE, col |-> <<>>]

RECURSIVE ExactPass(_, _, _, _)
\* the first pair of loops of find_column, at header i and alias j
ExactPass(cols, al, i, j) ==
    IF i > Len(cols) THEN NoColumn
    ELSE IF j > Len(al) THEN ExactPass(cols, al, i + 1, 1)
    ELSE IF normalize_col_name(cols[i]) = al[j] THEN Found(cols[i])
    ELSE ExactPass(cols, al, i, j + 1)

RECURSIVE LoosePass(_, _, _, _)
\* the second pair of loops of find_column, at header i and alias j
LoosePass(cols, al, i, j) ==
    IF i > Len(cols) THEN NoColumn
    ELSE IF j > Len(al) THEN LoosePass(cols, al, i + 1, 1)
    ELSE IF Contains(normalize_col_name(cols[i]), al[j]) THEN Found(cols[i])
    ELSE LoosePass(cols, al, i, j + 1)

RECURSIVE OnePass(_, _, _, _)
\* find_column with the two tests in one pass over the headers
OnePass(cols, al, i, j) ==
    IF i > Len(cols) THEN NoColumn
    ELSE IF j > Len(al) THEN OnePass(cols, al, i + 1, 1)
    ELSE IF Contains(normalize_col_name(cols[i]), al[j]) THEN Found(cols[i])
    ELSE OnePass(cols, al, i, j + 1)

find_column_one_pass(cols, al) == OnePass(cols, al, 1, 1)

find_column(cols, al) ==
    LET exact == ExactPass(cols, al, 1, 1)
    IN  IF exact.some THEN exact ELSE LoosePass(cols, al, 1, 1)

aliases ==
    [school_name |->
        <<<<"s", "c", "h", "o", "o", "l", "n", "a", "m", "e">>,
          <<"s", "c", "o", "o", "l", "n", "a", "m", "e">>,
          <<"s", "c", "h", "o", "o", "l">>>>,
     class |->
        <<<<"c", "l", "a", "s", "s">>,
          <<"g", "r", "a", "d", "e">>,
          <<"s", "t", "a", "n", "d", "a", "r", "d">>>>,
     division |->
        <<<<"d", "i", "v", "i", "s", "i", "o", "n">>,
          <<"s", "e", "c", "t", "i", "o", "n">>>>,
     roll_no |->
        <<<<"r", "o", "l", "l", "n", "o">>,
          <<"r", "o", "l", "l", "n", "u", "m", "b", "e", "r">>,
          <<"r", "o", "l", "l", "_", "n", "o">>>>,
     student_name |->
        <<<<"n", "a", "m", "e", "o", "f", "t", "h", "e", "s", "t", "u", "d", "e", "n", "t">>,
          <<"n", "a", "m", "e">>,
          <<"s", "t", "u", "d", "e", "n", "t", "n", "a", "m", "e">>>>]

Fields == {"school_name", "class", "division", "roll_no", "student_name"}

\* the col_map comprehension over the alias table
ColumnMap(cols) == [f \in Fields |-> find_column(cols, aliases[f])]

-----------------------------------------------------------------------------
(* safe_filename *)

ForbiddenChars == {"\\", "/", "*", "?", ":", "\"", "<", ">", "|"}

\* re.sub(r'[\\/*?:"<>|]', '_', s)
SubForbidden(s) ==
    [i \in 1..Len(s) |-> IF s[i] \in ForbiddenChars THEN "_" ELSE s[i]]

\* SubWhitespace with the pattern ' +' in place of '\s+'
SubSpaces(s) ==
    LET idx == [i \in 1..Len(s) |-> i]
        Keeps(i) == s[i] # " " \/ i = 1 \/ s[i - 1] # " "
        kept == SelectSeq(idx, Keeps)
    IN  [k \in 1..Len(kept) |-> IF s[kept[k]] = " " THEN "_" ELSE s[kept[k]]]

\* re.sub(r'\s+', '_', s): every maximal whitespace run gives one underscore
SubWhitespace(s) ==
    LET idx == [i \in 1..Len(s) |-> i]
        Keeps(i) == s[i] \notin Whitespace \/ i = 1 \/ s[i - 1] \notin Whitespace
        kept == SelectSeq(idx, Keeps)
    IN  [k \in 1..Len(kept) |->
            IF s[kept[k]] \in Whitespace THEN "_" ELSE s[kept[k]]]

MaxFilenameLen == 200

safe_filename(s) == Take(SubWhitespace(SubForbidden(Strip(s))), MaxFilenameLen)

-----------------------------------------------------------------------------
(* The body of the main row loop *)

\* the truth value Python gives a cell in `x or ' '`
Truthy(c) ==
    CASE c.k = "nan" -> TRUE
      [] c.k = "int" -> c.n # 0
      [] c.k = "str" -> c.s # <<>>
      [] OTHER -> TRUE

\* the text f"{x or ' '}" puts in the info table
Rendered(c) == IF Truthy(c) THEN Str(c) ELSE <<" ">>

\* row.get(col_map.get(f), "") if col_map.get(f) else ""
RowField(cm, row, f) ==
    IF cm[f].some /\ cm[f].col # <<>> THEN row[cm[f].col] ELSE StrCell(<<>>)

\* is_child: parsed_class is not None and parsed_class in [1, 2, 3]
IsChild(p) == p.tag = "ok" /\ p.val \in {1, 2, 3}

TemplateType(p) == IF IsChild(p) THEN "child" ELSE "master"

RowOutcome(outcome, exc, roll, track, image, fill, label, data) ==
    [outcome |-> outcome, exc |-> exc, roll |-> roll, template_type |-> track,
     image |-> image, fill |-> fill, label |-> label, data |-> data]

NoData ==
    [student_name |-> <<>>, school_name |-> <<>>, class |-> <<>>,
     division |-> <<>>]

NotComposed ==
    RowOutcome("pending", "none", <<>>, "none", "none", NotDrawn, NotDrawn,
               NoData)

\* One iteration of the row loop.  outcome is "page" when showPage was
\* reached, "skipped" when the track's template is None, "raised" when an
\* exception left the loop body.
RowLoopBody(cm, row, T) ==
    LET student_name == RowField(cm, row, "student_name")
        school_name == RowField(cm, row, "school_name")
        class_name == RowField(cm, row, "class")
        division == RowField(cm, row, "division")
        roll_no_raw == RowField(cm, row, "roll_no")
        roll == format_roll_value(roll_no_raw)
        parsed == parse_class_value(class_name)
        template_type == TemplateType(parsed)
        fill == IF IsChild(parsed) THEN fill_roll_bubbles_child(roll.val)
                                   ELSE fill_roll_bubbles_master(roll.val)
        label == draw_roll_number_text(roll.val, template_type)
        data == [student_name |-> Rendered(student_name),
                 school_name |-> Rendered(school_name),
                 class |-> Rendered(class_name),
                 division |-> Rendered(division)]
        none == NoData
    IN  IF roll.tag = "raise"
        THEN RowOutcome("raised", roll.exc, <<>>, "none", "none",
                        NotDrawn, NotDrawn, none)
        ELSE IF parsed.tag = "raise"
        THEN RowOutcome("raised", parsed.exc, roll.val, "none", "none",
                        NotDrawn, NotDrawn, none)
        ELSE IF ~T[template_type]
        THEN RowOutcome("skipped", "none", roll.val, template_type, "none",
                        NotDrawn, NotDrawn, none)
        ELSE IF fill.exc # "none"
        THEN RowOutcome("raised", fill.exc, roll.val, template_type,
                        template_type, fill, NotDrawn, none)
        ELSE IF label.exc # "none"
        THEN RowOutcome("raised", label.exc, roll.val, template_type,
                        template_type, fill, label, none)
        ELSE RowOutcome("page", "none", roll.val, template_type,
                        template_type, fill, label, data)

-----------------------------------------------------------------------------
(* Values the variables of a specification hold while another one runs *)

NoSheet == [columns |-> <<>>, col_map |-> ColumnMap(<<>>)]

RunIdle ==
    /\ OMR_TEMPLATES = [t \in Tracks |-> TRUE]
    /\ sheet_names = <<>>
    /\ read_ok = <<>>
    /\ df = NoSheet
    /\ rows = <<>>
    /\ canvas = <<>>
    /\ zipf = <<>>
    /\ messages = <<>>
    /\ offered = FALSE
    /\ composed = NotComposed

RollIdle ==
    /\ v = NaN
    /\ roll_no = Pending(<<>>)
    /\ template = "none"
    /\ bubbles = NotDrawn
    /\ labels = NotDrawn

ClassIdle == class_val = NaN /\ parsed_class = Pending(0)

ColsIdle == df_columns = <<>> /\ col_map = ColumnMap(<<>>)

FileIdle == fname_in = <<>> /\ fname_out = <<>>

-----------------------------------------------------------------------------
(* SpecRoll: format_roll_value on a roll cell, then the layout engine on   *)
(* the text it returned, for either track                                  *)

InitRoll ==
    /\ pc = "format"
    /\ v \in RollCells
    /\ roll_no = Pending(<<>>)
    /\ template = "none"
    /\ bubbles = NotDrawn
    /\ labels = NotDrawn
    /\ ClassIdle /\ ColsIdle /\ FileIdle /\ RunIdle

FormatRoll ==
    /\ pc = "format"
    /\ roll_no' = format_roll_value(v)
    /\ pc' = IF roll_no'.tag = "ok" THEN "fill" ELSE "raised"
    /\ UNCHANGED <<v, template, bubbles, labels, classVars, colsVars, fileVars, runVars>>

FillBubbles ==
    /\ pc = "fill"
    /\ \E t \in Tracks :
        /\ template' = t
        /\ bubbles' = IF t = "child" THEN fill_roll_bubbles_child(roll_no.val)
                                     ELSE fill_roll_bubbles_master(roll_no.val)
    /\ pc' = IF bubbles'.exc = "none" THEN "label" ELSE "raised"
    /\ UNCHANGED <<v, roll_no, labels, classVars, colsVars, fileVars, runVars>>

DrawLabel ==
    /\ pc = "label"
    /\ labels' = draw_roll_number_text(roll_no.val, template)
    /\ pc' = IF labels'.exc = "none" THEN "drawn" ELSE "raised"
    /\ UNCHANGED <<v, roll_no, template, bubbles, classVars, colsVars, fileVars, runVars>>

NextRoll == FormatRoll \/ FillBubbles \/ DrawLabel

SpecRoll == InitRoll /\ [][NextRoll]_vars

-----------------------------------------------------------------------------
(* SpecClass: parse_class_value on a class cell *)

ClassAlphabet == {"1", "3", "i", "v", "x", "I", " ", "sup2"}

\* texts built around the keys of a table: padded, capitalised, with a digit
Decorated(m) ==
    UNION {{m[n], <<" ">> \o m[n] \o <<" ">>, m[n] \o <<"2">>,
            <<m[n][1]>> \o Tail(m[n]) \o <<"s">>,
            [i \in 1..Len(m[n]) |->
                IF \E k \in 1..26 : LowerSeq[k] = m[n][i]
                THEN UpperSeq[CHOOSE k \in 1..26 : LowerSeq[k] = m[n][i]]
                ELSE m[n][i]]} : n \in 1..Len(m)}

ClassCells ==
    {NaN, DateCell}
    \cup {IntCell(n) : n \in (0 - MaxClassInt)..MaxClassInt}
    \cup {StrCell(s) : s \in Strings(ClassAlphabet, MaxClassLen)}
    \cup {StrCell(s) : s \in Decorated(roman_map) \cup Decorated(words_map)}
    \cup {StrCell(<<"C", "l", "a", "s", "s", " ", "1", "0", " ", "B", "2">>),
          StrCell(<<"3", ".", "0">>), StrCell(<<"1", "0", "t", "h">>),
          StrCell(<<"0", "0", "3">>), StrCell(<<"L", "K", "G">>)}

InitClass ==
    /\ pc = "parse"
    /\ class_val \in ClassCells
    /\ parsed_class = Pending(0)
    /\ RollIdle /\ ColsIdle /\ FileIdle /\ RunIdle

ParseClass ==
    /\ pc = "parse"
    /\ parsed_class' = parse_class_value(class_val)
    /\ pc' = IF parsed_class'.tag = "raise" THEN "raised" ELSE "parsed"
    /\ UNCHANGED <<class_val, rollVars, colsVars, fileVars, runVars>>

NextClass == ParseClass

SpecClass == InitClass /\ [][NextClass]_vars

-----------------------------------------------------------------------------
(* SpecCols: the column mapping of one worksheet *)

HeaderPool ==
    {<<"S", "c", "h", "o", "o", "l", " ", "N", "a", "m", "e">>,
     <<"S", "C", "H", "O", "O", "L">>,
     <<"N", "a", "m", "e">>,
     <<"S", "t", "u", "d", "e", "n", "t", " ", "N", "a", "m", "e">>,
     <<"F", "u", "l", "l", " ", "N", "a", "m", "e">>,
     <<"R", "o", "l", "l", " ", "N", "o", ".">>,
     <<"r", "o", "l", "l", "_", "n", "u", "m", "b", "e", "r">>,
     <<"C", "l", "a", "s", "s">>,
     <<"C", "l", "a", "s", "s", " ", "T", "e", "a", "c", "h", "e", "r">>,
     <<"S", "e", "c", "t", "i", "o", "n">>,
     <<" ", "G", "r", "a", "d", "e", " ", "/", " ", "D", "i", "v", "i", "s", "i", "o", "n">>,
     <<"R", "e", "m", "a", "r", "k", "s">>}

\* ordered lists of distinct headers (pandas keeps header names distinct)
HeaderLists ==
    {hs \in UNION {[1..n -> HeaderPool] : n \in 0..MaxHeaders} :
        \A i, j \in 1..Len(hs) : i # j => hs[i] # hs[j]}

InitCols ==
    /\ pc = "resolve"
    /\ df_columns \in HeaderLists
    /\ col_map = ColumnMap(<<>>)
    /\ RollIdle /\ ClassIdle /\ FileIdle /\ RunIdle

ResolveColumns ==
    /\ pc = "resolve"
    /\ col_map' = ColumnMap(df_columns)
    /\ pc' = "resolved"
    /\ UNCHANGED <<df_columns, rollVars, classVars, fileVars, runVars>>

NextCols == ResolveColumns

SpecCols == InitCols /\ [][NextCols]_vars

-----------------------------------------------------------------------------
(* SpecFile: safe_filename on a text *)

FileAlphabet == {"a", " ", "\t", "/", "_"}

\* the text s written k times
Repeat(s, k) == [i \in 1..(Len(s) * k) |-> s[((i - 1) % Len(s)) + 1]]

FileNames ==
    {Repeat(s, k) : s \in Strings(FileAlphabet, MaxSeedLen),
                    k \in {1, MidRepeat, LongRepeat}}
    \cup {<<" ", "a", "\\", "/", "*", "?", ":", "\"", "<", ">", "|", " ", " ", "b", "\t">>,
          <<"C", "l", "a", "s", "s", " ", "1">>}

InitFile ==
    /\ pc = "sanitize"
    /\ fname_in \in FileNames
    /\ fname_out = <<>>
    /\ RollIdle /\ ClassIdle /\ ColsIdle /\ RunIdle

SafeFilename ==
    /\ pc = "sanitize"
    /\ fname_out' = safe_filename(fname_in)
    /\ pc' = "sanitized"
    /\ UNCHANGED <<fname_in, rollVars, classVars, colsVars, runVars>>

NextFile == SafeFilename

SpecFile == InitFile /\ [][NextFile]_vars

-----------------------------------------------------------------------------
(* Worksheets and rows the run specifications draw from *)

H_Name == <<"N", "a", "m", "e">>
H_StudentName == <<"S", "t", "u", "d", "e", "n", "t", " ", "N", "a", "m", "e">>
H_FullName == <<"F", "u", "l", "l", " ", "N", "a", "m", "e">>
H_SchoolName == <<"S", "c", "h", "o", "o", "l", " ", "N", "a", "m", "e">>
H_Class == <<"C", "l", "a", "s", "s">>
H_Section == <<"S", "e", "c", "t", "i", "o", "n">>
H_RollNo == <<"R", "o", "l", "l", " ", "N", "o", ".">>

T_Asha == StrCell(<<"A", "s", "h", "a">>)
T_II == StrCell(<<"I", "I">>)
T_LKG == StrCell(<<"L", "K", "G">>)
T_B == StrCell(<<"B">>)

TextCells == {NaN, StrCell(<<>>), T_Asha, IntCell(0)}
ClassColumnCells ==
    {NaN, T_II, T_LKG, IntCell(3), IntCell(7), IntCell(0), StrCell(<<"sup2">>)}
RollColumnCells == {NaN, IntCell(5), IntCell(1000), StrCell(<<"a", "b">>)}
DivisionCells == {NaN, T_B, IntCell(0)}

\* the cells a column of the detailed row specification may hold
CellsOf(h) ==
    CASE h = H_Class -> ClassColumnCells
      [] h = H_RollNo -> RollColumnCells
      [] h = H_Section -> DivisionCells
      [] OTHER -> TextCells

Range(f) == {f[x] : x \in DOMAIN f}

\* every row of a worksheet with headers hs, cells drawn by Cells
RowsOf(hs, Cells(_)) ==
    {r \in [Range(hs) -> UNION {Cells(h) : h \in Range(hs)}] :
        \A h \in Range(hs) : r[h] \in Cells(h)}

Sheet(hs) == [columns |-> hs, col_map |-> ColumnMap(hs)]

-----------------------------------------------------------------------------
(* SpecRow: the row loop body on one row of one worksheet *)

RowHeaderLists ==
    {<<H_StudentName, H_SchoolName, H_Class, H_Section, H_RollNo>>,
     <<H_SchoolName, H_FullName>>,
     <<H_Name, H_RollNo>>}

InitRow ==
    /\ pc = "row"
    /\ OMR_TEMPLATES \in {T \in [Tracks -> BOOLEAN] : \E t \in Tracks : T[t]}
    /\ df \in {Sheet(hs) : hs \in RowHeaderLists}
    /\ rows = <<>>
    /\ composed = NotComposed
    /\ sheet_names = <<>> /\ read_ok = <<>> /\ canvas = <<>> /\ zipf = <<>>
    /\ messages = <<>> /\ offered = FALSE
    /\ RollIdle /\ ClassIdle /\ ColsIdle /\ FileIdle

ComposeRow ==
    /\ pc = "row"
    /\ \E row \in RowsOf(df.columns, CellsOf) :
        /\ rows' = <<row>>
        /\ composed' = RowLoopBody(df.col_map, row, OMR_TEMPLATES)
    /\ pc' = "composed"
    /\ UNCHANGED <<OMR_TEMPLATES, sheet_names, read_ok, df, canvas, zipf,
                   messages, offered, rollVars, classVars, colsVars, fileVars>>

NextRow == ComposeRow

SpecRow == InitRow /\ [][NextRow]_vars

-----------------------------------------------------------------------------
(* Spec: the run of the script on an uploaded workbook *)

\* the name of the i-th worksheet; the names of a workbook are distinct
SheetName(i) == <<"C", "l", "a", "s", "s", " ", " ">> \o NatToStr(i)

Workbooks == {[i \in 1..n |-> SheetName(i)] : n \in 1..MaxSheets}

RunHeaderLists == {<<H_Name, H_Class, H_RollNo>>, <<H_Name>>}

RunCellsOf(h) ==
    CASE h = H_Class -> {T_II, IntCell(7)}
      [] h = H_RollNo -> {IntCell(5), IntCell(1000)}
      [] OTHER -> {T_Asha}

Message(kind, about, ref) == [kind |-> kind, about |-> about, ref |-> ref]

PdfSuffix == <<".", "p", "d", "f">>

\* the worksheet the loop over xls.sheet_names is at
sheet_name == sheet_names[Len(read_ok)]

Init ==
    /\ pc = "uploaded"
    /\ OMR_TEMPLATES \in [Tracks -> BOOLEAN]
    /\ sheet_names \in Workbooks
    /\ read_ok = <<>>
    /\ df = NoSheet
    /\ rows = <<>>
    /\ canvas = <<>>
    /\ zipf = <<>>
    /\ messages = <<>>
    /\ offered = FALSE
    /\ composed = NotComposed
    /\ RollIdle /\ ClassIdle /\ ColsIdle /\ FileIdle

\* both templates are None: st.error and st.stop()
StopNoTemplates ==
    /\ pc = "uploaded"
    /\ ~OMR_TEMPLATES["child"] /\ ~OMR_TEMPLATES["master"]
    /\ messages' = Append(messages, Message("error", "templates", <<>>))
    /\ pc' = "stopped"
    /\ UNCHANGED <<OMR_TEMPLATES, sheet_names, read_ok, df, rows, canvas, zipf,
                   offered, composed, rollVars, classVars, colsVars, fileVars>>

\* the workbook and the archive are opened
OpenWorkbook ==
    /\ pc = "uploaded"
    /\ OMR_TEMPLATES["child"] \/ OMR_TEMPLATES["master"]
    /\ pc' = "sheets"
    /\ UNCHANGED <<runVars, rollVars, classVars, colsVars, fileVars>>

\* ReadFailed without the `continue`: the stale canvas is archived as well
ReadFailedFallsThrough ==
    /\ pc = "sheets"
    /\ Len(read_ok) < Len(sheet_names)
    /\ read_ok' = Append(read_ok, FALSE)
    /\ messages' = Append(messages,
            Message("warning", "sheet", sheet_names[Len(read_ok) + 1]))
    /\ zipf' = Append(zipf,
            [name |-> safe_filename(sheet_names[Len(read_ok) + 1]) \o PdfSuffix,
             pages |-> canvas])
    /\ pc' = "sheets"
    /\ UNCHANGED <<OMR_TEMPLATES, sheet_names, df, rows, canvas, offered,
                   composed, rollVars, classVars, colsVars, fileVars>>

\* read_excel raises on the next worksheet: warning and continue
ReadFailed ==
    /\ pc = "sheets"
    /\ Len(read_ok) < Len(sheet_names)
    /\ read_ok' = Append(read_ok, FALSE)
    /\ messages' = Append(messages,
            Message("warning", "sheet", sheet_names[Len(read_ok) + 1]))
    /\ pc' = "sheets"
    /\ UNCHANGED <<OMR_TEMPLATES, sheet_names, df, rows, canvas, zipf, offered,
                   composed, rollVars, classVars, colsVars, fileVars>>

\* read_excel returns the next worksheet: columns mapped, missing ones
\* reported once, a fresh canvas
ReadSheet ==
    /\ pc = "sheets"
    /\ Len(read_ok) < Len(sheet_names)
    /\ read_ok' = Append(read_ok, TRUE)
    /\ \E hs \in RunHeaderLists : df' = Sheet(hs)
    /\ messages' =
        IF \E f \in Fields : ~df'.col_map[f].some
        THEN Append(messages,
                Message("info", "columns", sheet_names[Len(read_ok) + 1]))
        ELSE messages
    /\ rows' = <<>>
    /\ canvas' = <<>>
    /\ pc' = "rows"
    /\ UNCHANGED <<OMR_TEMPLATES, sheet_names, zipf, offered, composed,
                   rollVars, classVars, colsVars, fileVars>>

\* one iteration of `for _, row in df.iterrows()`
RowStep ==
    /\ pc = "rows"
    /\ Len(rows) < MaxRows
    /\ \E row \in RowsOf(df.columns, RunCellsOf) :
        LET out == RowLoopBody(df.col_map, row, OMR_TEMPLATES)
        IN  /\ rows' = Append(rows, row)
            /\ composed' = out
            /\ canvas' = IF out.outcome = "page"
                         THEN Append(canvas, [row |-> Len(rows) + 1, page |-> out])
                         ELSE canvas
            /\ messages' = IF out.outcome = "skipped"
                           THEN Append(messages, Message("warning", "row", out.roll))
                           ELSE messages
            /\ pc' = IF out.outcome = "raised" THEN "crashed" ELSE "rows"
    /\ UNCHANGED <<OMR_TEMPLATES, sheet_names, read_ok, df, zipf, offered,
                   rollVars, classVars, colsVars, fileVars>>

\* the rows are exhausted: c.save() and zipf.writestr
SaveSheet ==
    /\ pc = "rows"
    /\ zipf' = Append(zipf, [name |-> safe_filename(sheet_name) \o PdfSuffix,
                             pages |-> canvas])
    /\ pc' = "sheets"
    /\ UNCHANGED <<OMR_TEMPLATES, sheet_names, read_ok, df, rows, canvas,
                   messages, offered, composed, rollVars, classVars, colsVars,
                   fileVars>>

\* the worksheets are exhausted: st.success and the download button
Finish ==
    /\ pc = "sheets"
    /\ Len(read_ok) = Len(sheet_names)
    /\ messages' = Append(messages, Message("success", "run", <<>>))
    /\ offered' = TRUE
    /\ pc' = "done"
    /\ UNCHANGED <<OMR_TEMPLATES, sheet_names, read_ok, df, rows, canvas, zipf,
                   composed, rollVars, classVars, colsVars, fileVars>>

Next ==
    \/ StopNoTemplates
    \/ OpenWorkbook
    \/ ReadFailed
    \/ ReadSheet
    \/ RowStep
    \/ SaveSheet
    \/ Finish

Spec == Init /\ [][Next]_vars

-----------------------------------------------------------------------------
(* Claims about the value normalizers and the layout engine *)

\* C1: for every raw roll-number cell, format_roll_value returns without
\* raising and the text it returns is exactly 3 characters long.
C1_RollIsThreeChars ==
    roll_no.tag # "pending" => roll_no.tag = "ok" /\ Len(roll_no.val) = 3

DecimalAt(s) == {i \in 1..Len(s) : s[i] \in DecDigits}

\* the class level the fallback chain of the specification gives a cell
ChainLevel(c) ==
    IF IsNa(c) THEN None
    ELSE LET s == Lower(Strip(Str(c)))
             D == DecimalAt(s)
             first == CHOOSE i \in D : \A j \in D : i <= j
             last == CHOOSE j \in D :
                        /\ first <= j
                        /\ \A k \in first..j : k \in D
                        /\ (j + 1) \notin D
         IN  IF s # <<>> /\ D = 1..Len(s) THEN Ok(DecValue(s))
             ELSE IF D # {} THEN Ok(DecValue(SubSeq(s, first, last)))
             ELSE IF \E n \in 1..12 : roman_map[n] = s
             THEN Ok(CHOOSE n \in 1..12 : roman_map[n] = s)
             ELSE IF \E n \in 1..12 : words_map[n] = s
             THEN Ok(CHOOSE n \in 1..12 : words_map[n] = s)
             ELSE None

\* C2: for every class cell, parse_class_value equals the ordered fallback
\* chain: null gives no-value; else int(s) when the stripped lower-cased text
\* s is all digits, else the first run of digits, else the Roman-numeral
\* entry, else the ordinal-word entry, else no-value; "III", "3" and "third"
\* give 3 and "xii" gives 12.
C2_ClassFallbackChain ==
    pc # "parse" =>
        /\ parsed_class = ChainLevel(class_val)
        /\ class_val \in {StrCell(<<"I", "I", "I">>), StrCell(<<"3">>),
                          StrCell(<<"t", "h", "i", "r", "d">>)}
              => parsed_class = Ok(3)
        /\ class_val = StrCell(<<"x", "i", "i">>) => parsed_class = Ok(12)
        /\ class_val = NaN => parsed_class = None

\* C9: for every roll text format_roll_value can hand over, on either track,
\* the bubble-fill and label functions visit only positions 0, 1 and 2 and
\* never index the calibration table out of range; there is exactly one
\* bubble for each position holding a decimal digit and none for the others,
\* hence at most 3 bubbles and at most 3 label glyphs.
C9_LayoutStaysInTable ==
    /\ bubbles.exc # "pending" =>
        /\ bubbles.exc = "none"
        /\ \A k \in 1..Len(bubbles.marks) : bubbles.marks[k].pos \in 0..2
        /\ {bubbles.marks[k].pos + 1 : k \in 1..Len(bubbles.marks)}
              = DecimalAt(roll_no.val)
        /\ Len(bubbles.marks) = Cardinality(DecimalAt(roll_no.val))
        /\ Len(bubbles.marks) <= 3
    /\ labels.exc # "pending" =>
        /\ labels.exc = "none"
        /\ \A k \in 1..Len(labels.marks) : labels.marks[k].pos \in 0..2
        /\ Len(labels.marks) <= 3

-----------------------------------------------------------------------------
(* Claims about the column resolver *)

ExactAt(cols, al) ==
    {i \in 1..Len(cols) : \E j \in 1..Len(al) : normalize_col_name(cols[i]) = al[j]}

LooseAt(cols, al) ==
    {i \in 1..Len(cols) :
        \E j \in 1..Len(al) : Contains(normalize_col_name(cols[i]), al[j])}

Least(S) == CHOOSE i \in S : \A j \in S : i <= j

\* C4: find_column returns the first header, in header order, whose
\* normalized form equals an alias, even when an earlier header merely
\* contains one; failing that the first header whose normalized form
\* contains an alias; failing that, absent.
C4_ExactThenLoose ==
    pc = "resolved" =>
        \A f \in Fields :
            LET E == ExactAt(df_columns, aliases[f])
                L == LooseAt(df_columns, aliases[f])
            IN  col_map[f] = IF E # {} THEN Found(df_columns[Least(E)])
                             ELSE IF L # {} THEN Found(df_columns[Least(L)])
                             ELSE NoColumn

\* C4 witness: a field resolved to an exactly matching header that comes
\* after a header which only contains one of its aliases
C4_Witness ==
    /\ pc = "resolved"
    /\ \E f \in Fields :
        LET E == ExactAt(df_columns, aliases[f])
            L == LooseAt(df_columns, aliases[f])
        IN  /\ E # {}
            /\ Least(L) < Least(E)
            /\ col_map[f] = Found(df_columns[Least(E)])

\* C10: the column map is injective on resolved fields: no header is
\* assigned to two different canonical fields.
C10_ColumnMapInjective ==
    pc = "resolved" =>
        \A f, g \in Fields :
            (f # g /\ col_map[f].some /\ col_map[g].some)
                => col_map[f].col # col_map[g].col

-----------------------------------------------------------------------------
(* Claims about safe_filename *)

Count(s, S) == Cardinality({i \in 1..Len(s) : s[i] \in S})

\* the whitespace runs of a text, by the index each starts at
RunStarts(s) ==
    {i \in 1..Len(s) :
        s[i] \in Whitespace /\ (i = 1 \/ s[i - 1] \notin Whitespace)}

\* C5: the output of safe_filename holds none of \ / * ? : " < > |, holds
\* no whitespace (each whitespace run of the stripped input becomes a single
\* underscore) and is at most 200 characters long.
C5_SafeFilename ==
    pc = "sanitized" =>
        LET t == Strip(fname_in)
            full == Len(t) - Count(t, Whitespace) + Cardinality(RunStarts(t))
        IN  /\ Count(fname_out, ForbiddenChars) = 0
            /\ Count(fname_out, Whitespace) = 0
            /\ Len(fname_out) <= 200
            /\ Len(fname_out) = Min(full, 200)
            /\ full <= 200 =>
                Count(fname_out, {"_"}) =
                    Cardinality(RunStarts(t)) + Count(t, ForbiddenChars \cup {"_"})

\* C5 witness: a text longer than 200 characters with a forbidden character
\* and a whitespace run of two, cut to 200 characters
C5_Witness ==
    /\ pc = "sanitized"
    /\ Len(fname_in) > 200
    /\ Len(fname_out) = 200
    /\ Count(fname_in, ForbiddenChars) > 0
    /\ \E i \in 2..(Len(fname_in) - 1) :
        /\ fname_in[i] \in Whitespace
        /\ fname_in[i + 1] \in Whitespace
        /\ fname_in[i - 1] \notin Whitespace

-----------------------------------------------------------------------------
(* Claims about the row loop body *)

DisplayedFields == {"student_name", "school_name", "class", "division"}

\* the calibration of a track: abscissas, bubble radius, label baseline
TrackX(t) == IF t = "child" THEN CHILD_ROLL_X_CM ELSE MASTER_ROLL_X_CM
TrackRadius(t) ==
    IF t = "child" THEN CHILD_BUBBLE_RADIUS_CM ELSE MASTER_BUBBLE_RADIUS_CM
TrackTextY(t) ==
    IF t = "child" THEN CHILD_BUBBLE_Y_TOP_CM[1] - 200
                   ELSE MASTER_BUBBLE_Y_TOP_CM[1] - 210

\* every mark of a drawing outcome lies on the columns of track t
OnTrack(d, t) ==
    \A k \in 1..Len(d.marks) : d.marks[k].x = TrackX(t)[d.marks[k].pos + 1]

\* C3: the track of a row is child exactly when the parsed class level is
\* 1, 2 or 3 and master otherwise, and the template image, the bubble fill
\* and the label calibration of the row's page all belong to that track.
C3_OneTrackPerPage ==
    composed.template_type # "none" =>
        LET level == parse_class_value(RowField(df.col_map, rows[1], "class"))
            t == composed.template_type
        IN  /\ t = "child" <=> (level.tag = "ok" /\ level.val \in {1, 2, 3})
            /\ t = "master" <=> ~(level.tag = "ok" /\ level.val \in {1, 2, 3})
            /\ composed.outcome = "page" =>
                /\ composed.image = t
                /\ OnTrack(composed.fill, t)
                /\ \A k \in 1..Len(composed.fill.marks) :
                        composed.fill.marks[k].r = TrackRadius(t)
                /\ OnTrack(composed.label, t)
                /\ \A k \in 1..Len(composed.label.marks) :
                        composed.label.marks[k].y = TrackTextY(t)
                /\ Len(composed.label.marks) = 3

\* C3 witness: a page composed on the child track, with bubbles and labels
C3_Witness ==
    /\ composed.outcome = "page"
    /\ composed.template_type = "child"
    /\ Len(composed.fill.marks) > 0
    /\ Len(composed.label.marks) = 3

\* C8: for each of the four displayed fields, when the field is missing
\* (its column was not resolved, or the row's cell is empty or null) the
\* info table renders a single blank space; otherwise it renders the cell's
\* value.
C8_MissingFieldIsBlank ==
    composed.outcome = "page" =>
        \A f \in DisplayedFields :
            LET cell == RowField(df.col_map, rows[1], f)
                missing == \/ ~df.col_map[f].some
                           \/ cell.k = "nan"
                           \/ cell = StrCell(<<>>)
            IN  composed.data[f] = IF missing THEN <<" ">> ELSE Str(cell)

-----------------------------------------------------------------------------
(* Claims about the run *)

\* the worksheets whose loop iteration is over
SheetsOver == IF pc \in {"rows", "crashed"} THEN Len(read_ok) - 1 ELSE Len(read_ok)

Indices(n) == [i \in 1..n |-> i]

IsParsed(i) == read_ok[i]
IsFailed(i) == ~read_ok[i]

\* the archive name of the i-th worksheet, "Class  <i>"
ArchiveName(i) ==
    <<"C", "l", "a", "s", "s", "_">> \o NatToStr(i) \o <<".", "p", "d", "f">>

IsSheetWarning(m) == m.kind = "warning" /\ m.about = "sheet"
IsRowWarning(m) == m.kind = "warning" /\ m.about = "row"

\* C6: when the run finishes the archive holds exactly one entry for each
\* worksheet that parsed, in worksheet order, named after the sanitized
\* worksheet name, and none for a worksheet that failed to parse; each failed
\* worksheet gives exactly one warning and does not keep a later worksheet
\* from being processed and archived.
C6_ArchiveOfParsedSheets ==
    LET parsed == SelectSeq(Indices(SheetsOver), IsParsed)
        failed == SelectSeq(Indices(Len(read_ok)), IsFailed)
        warned == SelectSeq(messages, IsSheetWarning)
    IN  /\ [k \in 1..Len(zipf) |-> zipf[k].name]
            = [k \in 1..Len(parsed) |-> ArchiveName(parsed[k])]
        /\ [k \in 1..Len(warned) |-> warned[k].ref]
            = [k \in 1..Len(failed) |-> sheet_names[failed[k]]]
        /\ pc = "done" => (Len(read_ok) = Len(sheet_names) /\ offered)
        /\ offered => pc = "done"

\* C6 witness: a finished run in which a worksheet failed to parse and a
\* later one was archived
C6_Witness ==
    /\ pc = "done"
    /\ \E i, j \in 1..Len(read_ok) : i < j /\ ~read_ok[i] /\ read_ok[j]
    /\ Len(zipf) >= 1
    /\ offered

\* the track the row loop gives a row of the current worksheet
TrackOfRow(i) ==
    TemplateType(parse_class_value(RowField(df.col_map, rows[i], "class")))

TemplateLoaded(i) == OMR_TEMPLATES[TrackOfRow(i)]
TemplateMissing(i) == ~OMR_TEMPLATES[TrackOfRow(i)]

RECURSIVE TrailingRowWarnings(_)
\* the row warnings issued since the worksheet was read
TrailingRowWarnings(ms) ==
    IF ms = <<>> \/ ~IsRowWarning(ms[Len(ms)]) THEN 0
    ELSE 1 + TrailingRowWarnings(SubSeq(ms, 1, Len(ms) - 1))

\* C7: the pages of a parsed worksheet's PDF are, in row order, exactly one
\* page per row whose track's template loaded; a row whose template failed to
\* load gives no page and exactly one warning and leaves the pages of the
\* other rows alone; with both templates missing the run stops before any
\* worksheet is read and no archive is offered.
C7_OnePagePerLoadedRow ==
    /\ pc \in {"rows", "crashed"} =>
        /\ [k \in 1..Len(canvas) |-> canvas[k].row]
              = SelectSeq(Indices(Len(rows)), TemplateLoaded)
        /\ TrailingRowWarnings(messages)
              = Len(SelectSeq(Indices(Len(rows)), TemplateMissing))
    /\ (~OMR_TEMPLATES["child"] /\ ~OMR_TEMPLATES["master"]) =>
        (read_ok = <<>> /\ zipf = <<>> /\ ~offered /\ pc \in {"uploaded", "stopped"})

====
